---- MODULE Spec2Model ----
(***************************************************************************)
(* Model of the project scheduler (ChiaYing-Chen/ProjectCoWork): the App   *)
(* component's command handlers over the current project's tasks and task  *)
(* groups, the conflict detector, the calendar week lane packing and the   *)
(* resize gesture of the calendar / Gantt views.                           *)
(*                                                                         *)
(* Dates are day-aligned (the form builds them at T00:00:00, the views use *)
(* startOfDay / parseISO of a day cell), so a date is an integer day       *)
(* number.  Day 0 is a Sunday: the calendar weeks start on Sunday          *)
(* (startOfWeek default) and a week window starts at a multiple of 7.      *)
(* An optional field that is undefined is 0: the code tests such fields by *)
(* truthiness (task.predecessorId, task.groupId, taskData.id).             *)
(***************************************************************************)
EXTENDS Integers, Sequences, FiniteSets, TLC

VARIABLES
    tasks,              \* Project.tasks of the current project (array of Task)
    taskGroups,         \* Project.taskGroups of the current project
    warnings,           \* App state: warnings
    selectedTaskIds,    \* App state: selectedTaskIds
    currentProjectId,   \* App state: currentProjectId (NoProject = null)
    groupClock,         \* Date.now() as used for `group-${Date.now()}`
    stamped,            \* the last command wrote lastModified = new Date()
    resizingInfo,       \* view state: resizingInfo (NoResize = null)
    resizePreview,      \* view state: resizePreview (NoPreview = null)
    resizeCall,         \* the last call of onResizeTask (NoCall = none yet)
    weekStart,          \* calendar render: week[0] of the rendered week
    taskLayoutRows,     \* calendar render: taskLayoutRows of that week
    rowCount,           \* calendar render: rows.length of that week
    pc                  \* position of the single-shot specifications

vars == <<tasks, taskGroups, warnings, selectedTaskIds, currentProjectId,
          groupClock, stamped, resizingInfo, resizePreview, resizeCall,
          weekStart, taskLayoutRows, rowCount, pc>>

projectVars == <<tasks, taskGroups, warnings, selectedTaskIds,
                 currentProjectId, groupClock, stamped>>
resizeVars == <<resizingInfo, resizePreview, resizeCall>>
renderVars == <<weekStart, taskLayoutRows, rowCount>>

----------------------------------------------------------------------------
(* Bounds of the model *)

MaxTaskId == 2      \* facade specification: task ids are 1..MaxTaskId
MaxDay == 2         \* facade specification: dates are 0..MaxDay
MaxGroupClock == 2  \* createGroup is taken at most this often
MaxImport == 2      \* an imported file holds at most this many events
PackMaxTasks == 3   \* calendar specification: at most this many tasks
PackMaxDay == 7     \* calendar specification: dates are 0..PackMaxDay
GroupMaxTasks == 3  \* group specification: the project holds this many tasks
MoveMaxTasks == 2   \* move specification: at most this many tasks
MoveMaxDay == 13    \* move specification: dates are 0..MoveMaxDay
DatesMaxTasks == 2  \* schedule specification: at most this many tasks
DatesMaxDay == 6    \* schedule specification: dates are 0..DatesMaxDay
DatesMaxInterval == 1 \* schedule specification: intervals are -1..1
DatesMaxGroups == 1 \* schedule specification: createGroup is taken this often
ResizeMaxDay == 3   \* resize specification: dates are 0..ResizeMaxDay
DetectMaxTasks == 3 \* detector specification: at most this many tasks
DetectMaxDay == 1   \* detector specification: dates are 0..DetectMaxDay
CmdMaxTasks == 4    \* single-command specifications: at most this many tasks
CmdMaxSelected == 3 \* single-command specifications: at most this many selected
DeleteMaxIds == 2   \* delete specification: at most this many ids in one call
LinkedMaxTasks == 3 \* delete specification: tasks of a project with predecessors
NoOpMaxTasks == 3   \* no-op specifications: at most this many tasks
NoOpMaxDay == 1     \* no-op specifications: dates are 0..NoOpMaxDay
OrderMaxTasks == 2  \* week order specification: at most this many tasks
OrderMaxDay == 10   \* week order specification: dates are 0..OrderMaxDay
IntervalMaxTasks == 3 \* interval specification: at most this many tasks
IntervalMaxDay == 1 \* interval specification: dates are 0..IntervalMaxDay
IntervalMaxGap == 1 \* interval specification: intervals are -1..1

----------------------------------------------------------------------------
(* Values *)

Undefined == 0
NoProject == "null"
TheProject == "proj"
NoResize == [taskId |-> 0]
NoPreview == [null |-> TRUE]
NoWeek == -1

TaskIds == 1..MaxTaskId
Days == 0..MaxDay

Task(id, start, end, predecessorId, groupId) ==
    [id |-> id, start |-> start, end |-> end,
     predecessorId |-> predecessorId, groupId |-> groupId]

TaskGroup(id, taskIds) == [id |-> id, taskIds |-> taskIds]

----------------------------------------------------------------------------
(* Array helpers *)

Range(s) == {s[i] : i \in DOMAIN s}

Includes(s, x) == x \in Range(s)

\* find that takes the first task whatever its id
FindFirstTask(ts, id) == IF ts = <<>> THEN 0 ELSE 1

\* Array.prototype.find on tasks by id: index of the first match, 0 if none
FindTask(ts, id) ==
    IF \E i \in DOMAIN ts : ts[i].id = id
    THEN CHOOSE i \in DOMAIN ts :
            /\ ts[i].id = id
            /\ \A j \in 1..(i - 1) : ts[j].id # id
    ELSE 0

\* Array.prototype.find on taskGroups by id
FindGroup(gs, gid) ==
    IF \E i \in DOMAIN gs : gs[i].id = gid
    THEN CHOOSE i \in DOMAIN gs :
            /\ gs[i].id = gid
            /\ \A j \in 1..(i - 1) : gs[j].id # gid
    ELSE 0

\* array.filter(x => x \notin S) on an array of ids
RECURSIVE WithoutIds(_, _)
WithoutIds(ids, S) ==
    IF ids = <<>> THEN <<>>
    ELSE IF Head(ids) \in S THEN WithoutIds(Tail(ids), S)
         ELSE <<Head(ids)>> \o WithoutIds(Tail(ids), S)

----------------------------------------------------------------------------
(* date-fns, on day numbers *)

addDays(date, amount) == date + amount

differenceInDays(dateLeft, dateRight) == dateLeft - dateRight

isBefore(a, b) == a < b
isAfter(a, b) == a > b

\* Saturday or Sunday; day 0 is a Sunday
isWeekend(date) == (date % 7) \in {0, 6}

\* Math.trunc(n / 7)
TruncWeeks(n) == IF n >= 0 THEN n \div 7 ELSE -((-n) \div 7)

\* the loop of differenceInBusinessDays: walk dateRight towards dateLeft
RECURSIVE BusinessWalk(_, _, _, _)
BusinessWalk(dateLeft, dateRight, sign, result) ==
    IF dateRight = dateLeft THEN result
    ELSE BusinessWalk(dateLeft, dateRight + sign, sign,
                      result + (IF isWeekend(dateRight) THEN 0 ELSE sign))

differenceInBusinessDays(dateLeft, dateRight) ==
    LET calendarDifference == dateLeft - dateRight
        sign == IF calendarDifference < 0 THEN -1 ELSE 1
        weeks == TruncWeeks(calendarDifference)
    IN BusinessWalk(dateLeft, addDays(dateRight, weeks * 7), sign, weeks * 5)

----------------------------------------------------------------------------
(* Conflict detector *)

\* one pass of the for-loop of checkForWarnings, from index i on
RECURSIVE WarningsLoop(_, _)
WarningsLoop(updatedTasks, i) ==
    IF i > Len(updatedTasks) THEN <<>>
    ELSE LET task == updatedTasks[i]
             p == FindTask(updatedTasks, task.predecessorId)
         IN (IF /\ task.predecessorId # Undefined
                /\ p # 0
                /\ task.start < updatedTasks[p].end
             THEN <<[taskId |-> task.id,
                     message |-> <<task.id, updatedTasks[p].id>>]>>
             ELSE <<>>)
            \o WarningsLoop(updatedTasks, i + 1)

\* the loop entered at the second task
checkForWarningsFromSecond(updatedTasks) == WarningsLoop(updatedTasks, 2)

\* the list handed to setWarnings
checkForWarnings(updatedTasks) == WarningsLoop(updatedTasks, 1)

----------------------------------------------------------------------------
(* handleDragTask *)

\* grouped branch: every task listed in group.taskIds is shifted
DragGroupTask(task, deltaDays) ==
    LET duration == differenceInBusinessDays(task.end, task.start)
        newStart == addDays(task.start, deltaDays)
        newEnd == addDays(newStart, duration)
    IN [task EXCEPT !.start = newStart, !.end = newEnd]

\* the duration counts the first and the last day both
DragSingleTaskInclusive(task, newStartDate) ==
    LET duration == differenceInBusinessDays(task.end, task.start) + 1
        newEndDate == addDays(newStartDate, duration)
    IN [task EXCEPT !.start = newStartDate, !.end = newEndDate]

\* ungrouped branch: the dragged task only
DragSingleTask(task, newStartDate) ==
    LET duration == differenceInBusinessDays(task.end, task.start)
        newEndDate == addDays(newStartDate, duration)
    IN [task EXCEPT !.start = newStartDate, !.end = newEndDate]

\* updatedTasks of handleDragTask, for an existing task and a nonzero delta
DragUpdatedTasks(ts, gs, taskId, newStartDate) ==
    LET taskToMove == ts[FindTask(ts, taskId)]
        deltaDays == differenceInDays(newStartDate, taskToMove.start)
    IN IF taskToMove.groupId # Undefined
       THEN LET g == FindGroup(gs, taskToMove.groupId)
            IN IF g # 0
               THEN [i \in DOMAIN ts |->
                        IF Includes(gs[g].taskIds, ts[i].id)
                        THEN DragGroupTask(ts[i], deltaDays)
                        ELSE ts[i]]
               ELSE ts
       ELSE [i \in DOMAIN ts |->
                IF ts[i].id = taskId
                THEN DragSingleTask(ts[i], newStartDate)
                ELSE ts[i]]

\* the early return for an unknown task alone
DragOfUnknownTask(ts, taskId, newStartDate) == FindTask(ts, taskId) = 0

\* the early returns of handleDragTask: unknown task, or zero delta
DragIsNoOp(ts, taskId, newStartDate) ==
    \/ FindTask(ts, taskId) = 0
    \/ differenceInDays(newStartDate, ts[FindTask(ts, taskId)].start) = 0

\* the tasks of the project after handleDragTask
DragResult(ts, gs, taskId, newStartDate) ==
    IF DragIsNoOp(ts, taskId, newStartDate)
    THEN ts
    ELSE DragUpdatedTasks(ts, gs, taskId, newStartDate)

handleDragTask(taskId, newStartDate) ==
    /\ currentProjectId = TheProject
    /\ IF DragIsNoOp(tasks, taskId, newStartDate)
       THEN /\ stamped' = FALSE
            /\ UNCHANGED <<tasks, warnings>>
       ELSE /\ tasks' = DragResult(tasks, taskGroups, taskId, newStartDate)
            /\ warnings' = checkForWarnings(tasks')
            /\ stamped' = TRUE
    /\ UNCHANGED <<taskGroups, selectedTaskIds, currentProjectId, groupClock>>
    /\ UNCHANGED <<resizeVars, renderVars, pc>>

----------------------------------------------------------------------------
(* Selection and project navigation *)

\* handleSelectTask: ctrl/meta toggles the id, a plain click selects it alone
handleSelectTask(taskId, isCtrlOrMetaKey) ==
    /\ currentProjectId = TheProject
    /\ selectedTaskIds' =
          IF isCtrlOrMetaKey
          THEN IF Includes(selectedTaskIds, taskId)
               THEN WithoutIds(selectedTaskIds, {taskId})
               ELSE Append(selectedTaskIds, taskId)
          ELSE <<taskId>>
    /\ UNCHANGED <<tasks, taskGroups, warnings, currentProjectId, groupClock,
                   stamped>>
    /\ UNCHANGED <<resizeVars, renderVars, pc>>

\* onSelectProject = setCurrentProjectId(id)
SelectProject ==
    /\ currentProjectId = NoProject
    /\ currentProjectId' = TheProject
    /\ UNCHANGED <<tasks, taskGroups, warnings, selectedTaskIds, groupClock,
                   stamped>>
    /\ UNCHANGED <<resizeVars, renderVars, pc>>

\* onBackToProjects = setCurrentProjectId(null)
BackToProjects ==
    /\ currentProjectId = TheProject
    /\ currentProjectId' = NoProject
    /\ UNCHANGED <<tasks, taskGroups, warnings, selectedTaskIds, groupClock,
                   stamped>>
    /\ UNCHANGED <<resizeVars, renderVars, pc>>

----------------------------------------------------------------------------
(* handleCreateGroup *)

\* only the first selected id is looked at
IsDuplicateFirstOnly(ts, selected) ==
    /\ selected # <<>>
    /\ FindTask(ts, selected[1]) # 0
    /\ ts[FindTask(ts, selected[1])].groupId # Undefined

\* selectedTaskIds.some(id => task && task.groupId)
IsDuplicate(ts, selected) ==
    \E k \in DOMAIN selected :
        /\ FindTask(ts, selected[k]) # 0
        /\ ts[FindTask(ts, selected[k])].groupId # Undefined

handleCreateGroup ==
    /\ currentProjectId = TheProject
    /\ IF Len(selectedTaskIds) < 2
       THEN /\ stamped' = FALSE
            /\ UNCHANGED <<tasks, taskGroups, selectedTaskIds, groupClock>>
       ELSE IF IsDuplicate(tasks, selectedTaskIds)
       THEN /\ stamped' = FALSE
            /\ UNCHANGED <<tasks, taskGroups, selectedTaskIds, groupClock>>
       ELSE LET newGroupId == groupClock + 1
            IN /\ groupClock' = newGroupId
               /\ taskGroups' =
                     Append(taskGroups, TaskGroup(newGroupId, selectedTaskIds))
               /\ tasks' = [i \in DOMAIN tasks |->
                              IF Includes(selectedTaskIds, tasks[i].id)
                              THEN [tasks[i] EXCEPT !.groupId = newGroupId]
                              ELSE tasks[i]]
               /\ selectedTaskIds' = <<>>
               /\ stamped' = TRUE
    /\ UNCHANGED <<warnings, currentProjectId>>
    /\ UNCHANGED <<resizeVars, renderVars, pc>>

----------------------------------------------------------------------------
(* handleSaveTask *)

\* Math.max(...tasks.map(t => t.id)) + 1, or 1 for an empty list
NewTaskId(ts) ==
    IF Len(ts) > 0
    THEN (CHOOSE m \in {ts[i].id : i \in DOMAIN ts} :
             \A i \in DOMAIN ts : ts[i].id <= m) + 1
    ELSE 1

SavedTasks(ts, id, start, end, predecessorId) ==
    IF id # Undefined
    THEN [i \in DOMAIN ts |->
            IF ts[i].id = id
            THEN [ts[i] EXCEPT !.start = start, !.end = end,
                               !.predecessorId = predecessorId]
            ELSE ts[i]]
    ELSE Append(ts, Task(NewTaskId(ts), start, end, predecessorId, Undefined))

handleSaveTask(id, start, end, predecessorId) ==
    /\ currentProjectId = TheProject
    /\ tasks' = SavedTasks(tasks, id, start, end, predecessorId)
    /\ warnings' = checkForWarnings(tasks')
    /\ stamped' = TRUE
    /\ UNCHANGED <<taskGroups, selectedTaskIds, currentProjectId, groupClock>>
    /\ UNCHANGED <<resizeVars, renderVars, pc>>

----------------------------------------------------------------------------
(* handleUngroupTask *)

\* a group is dissolved only when no id is left in it
DissolveWhenEmpty(updatedGroups, groupId) ==
    /\ FindGroup(updatedGroups, groupId) # 0
    /\ Len(updatedGroups[FindGroup(updatedGroups, groupId)].taskIds) < 1

\* targetGroup && targetGroup.taskIds.length < 2
ShouldDissolveGroup(updatedGroups, groupId) ==
    /\ FindGroup(updatedGroups, groupId) # 0
    /\ Len(updatedGroups[FindGroup(updatedGroups, groupId)].taskIds) < 2

handleUngroupTask(taskIdToUngroup) ==
    /\ currentProjectId = TheProject
    /\ LET t == FindTask(tasks, taskIdToUngroup)
       IN IF t = 0 \/ tasks[t].groupId = Undefined
          THEN /\ stamped' = FALSE
               /\ UNCHANGED <<tasks, taskGroups, selectedTaskIds>>
          ELSE LET groupId == tasks[t].groupId
                   updatedGroups ==
                       [g \in DOMAIN taskGroups |->
                          IF taskGroups[g].id = groupId
                          THEN [taskGroups[g] EXCEPT !.taskIds =
                                   WithoutIds(@, {taskIdToUngroup})]
                          ELSE taskGroups[g]]
                   shouldDissolveGroup ==
                       ShouldDissolveGroup(updatedGroups, groupId)
               IN /\ taskGroups' =
                        IF shouldDissolveGroup
                        THEN SelectSeq(updatedGroups, LAMBDA g : g.id # groupId)
                        ELSE updatedGroups
                  /\ tasks' = [i \in DOMAIN tasks |->
                        IF \/ tasks[i].id = taskIdToUngroup
                           \/ (shouldDissolveGroup /\ tasks[i].groupId = groupId)
                        THEN [tasks[i] EXCEPT !.groupId = Undefined]
                        ELSE tasks[i]]
                  /\ selectedTaskIds' =
                        WithoutIds(selectedTaskIds, {taskIdToUngroup})
                  /\ stamped' = TRUE
    /\ UNCHANGED <<warnings, currentProjectId, groupClock>>
    /\ UNCHANGED <<resizeVars, renderVars, pc>>

----------------------------------------------------------------------------
(* handleDeleteTasks (the user confirms the dialog) *)

\* remainingTasks: the deleted tasks are dropped and links to them cleared
RemainingTasks(ts, idsToDeleteSet) ==
    LET kept == SelectSeq(ts, LAMBDA t : t.id \notin idsToDeleteSet)
    IN [i \in DOMAIN kept |->
          IF /\ kept[i].predecessorId # Undefined
             /\ kept[i].predecessorId \in idsToDeleteSet
          THEN [kept[i] EXCEPT !.predecessorId = Undefined]
          ELSE kept[i]]

\* the groups after the map step: deleted ids filtered from every taskIds
FilteredGroups(gs, idsToDeleteSet) ==
    [g \in DOMAIN gs |->
        [gs[g] EXCEPT !.taskIds = WithoutIds(@, idsToDeleteSet)]]

\* the reduce step keeps every group
KeepAllGroups(gs, idsToDeleteSet) == FilteredGroups(gs, idsToDeleteSet)

\* the reduce step: groups with fewer than 2 ids left are dissolved
FinalGroups(gs, idsToDeleteSet) ==
    SelectSeq(FilteredGroups(gs, idsToDeleteSet),
              LAMBDA g : ~(Len(g.taskIds) < 2))

\* no group is reported as dissolved
NoDissolvedGroupIds(gs, idsToDeleteSet) == {}

DissolvedGroupIds(gs, idsToDeleteSet) ==
    {g.id : g \in {x \in Range(FilteredGroups(gs, idsToDeleteSet)) :
                      Len(x.taskIds) < 2}}

handleDeleteTasks(taskIdsToDelete) ==
    /\ currentProjectId = TheProject
    /\ IF Len(taskIdsToDelete) = 0
       THEN /\ stamped' = FALSE
            /\ UNCHANGED <<tasks, taskGroups, selectedTaskIds>>
       ELSE LET idsToDeleteSet == Range(taskIdsToDelete)
                remainingTasks == RemainingTasks(tasks, idsToDeleteSet)
                dissolvedGroupIds == DissolvedGroupIds(taskGroups, idsToDeleteSet)
            IN /\ tasks' = [i \in DOMAIN remainingTasks |->
                     IF /\ remainingTasks[i].groupId # Undefined
                        /\ remainingTasks[i].groupId \in dissolvedGroupIds
                     THEN [remainingTasks[i] EXCEPT !.groupId = Undefined]
                     ELSE remainingTasks[i]]
               /\ taskGroups' = FinalGroups(taskGroups, idsToDeleteSet)
               /\ selectedTaskIds' = <<>>
               /\ stamped' = TRUE
    /\ UNCHANGED <<warnings, currentProjectId, groupClock>>
    /\ UNCHANGED <<resizeVars, renderVars, pc>>

\* handleDeleteTasks of src/App.tsx: newTasks is the filter alone, the
\* predecessorId of the surviving tasks is not looked at
App_handleDeleteTasks(taskIdsToDelete) ==
    /\ currentProjectId = TheProject
    /\ IF Len(taskIdsToDelete) = 0
       THEN /\ stamped' = FALSE
            /\ UNCHANGED <<tasks, taskGroups, selectedTaskIds>>
       ELSE LET idsToDeleteSet == Range(taskIdsToDelete)
                newTasks == SelectSeq(tasks, LAMBDA t : t.id \notin idsToDeleteSet)
                dissolvedGroupIds == DissolvedGroupIds(taskGroups, idsToDeleteSet)
            IN /\ tasks' = [i \in DOMAIN newTasks |->
                     IF /\ newTasks[i].groupId # Undefined
                        /\ newTasks[i].groupId \in dissolvedGroupIds
                     THEN [newTasks[i] EXCEPT !.groupId = Undefined]
                     ELSE newTasks[i]]
               /\ taskGroups' = FinalGroups(taskGroups, idsToDeleteSet)
               /\ selectedTaskIds' = <<>>
               /\ stamped' = TRUE
    /\ UNCHANGED <<warnings, currentProjectId, groupClock>>
    /\ UNCHANGED <<resizeVars, renderVars, pc>>

----------------------------------------------------------------------------
(* handleUpdateTaskInterval *)

\* Array.prototype.sort by start, stable: equal starts keep their order
RECURSIVE InsertByStart(_, _)
InsertByStart(sorted, t) ==
    IF sorted = <<>> THEN <<t>>
    ELSE IF Head(sorted).start <= t.start
         THEN <<Head(sorted)>> \o InsertByStart(Tail(sorted), t)
         ELSE <<t>> \o sorted

RECURSIVE SortByStart(_)
SortByStart(s) ==
    IF s = <<>> THEN <<>>
    ELSE InsertByStart(SortByStart(SubSeq(s, 1, Len(s) - 1)), s[Len(s)])

\* ids.map(id => tasks.find(t => t.id === id)).filter(Boolean)
RECURSIVE ResolveTasks(_, _)
ResolveTasks(ts, ids) ==
    IF ids = <<>> THEN <<>>
    ELSE (IF FindTask(ts, Head(ids)) # 0
          THEN <<ts[FindTask(ts, Head(ids))]>>
          ELSE <<>>) \o ResolveTasks(ts, Tail(ids))

\* findIndex by id on an array of tasks; 0 where the code gets -1
FindIndexById(groupTasks, id) == FindTask(groupTasks, id)

\* groupTasks.slice(startIndex) as a set of ids; slice(-1) is the last element
IdsToShift(ts, group, taskToShiftId) ==
    LET groupTasks == SortByStart(ResolveTasks(ts, group.taskIds))
        startIndex == FindIndexById(groupTasks, taskToShiftId)
    IN IF groupTasks = <<>> THEN {}
       ELSE IF startIndex = 0 THEN {groupTasks[Len(groupTasks)].id}
       ELSE {groupTasks[k].id : k \in startIndex..Len(groupTasks)}

\* the start is shifted and the end stays
ShiftStartOnly(task, delta) ==
    [task EXCEPT !.start = addDays(task.start, delta)]

ShiftTask(task, delta) ==
    LET duration == differenceInDays(task.end, task.start)
        newStart == addDays(task.start, delta)
        newEnd == addDays(newStart, duration)
    IN [task EXCEPT !.start = newStart, !.end = newEnd]

\* the interval is counted from the start of the task before
IntervalDeltaFromStart(ts, previousTaskId, taskToShiftId, newInterval) ==
    differenceInDays(
        addDays(ts[FindTask(ts, previousTaskId)].start, newInterval),
        ts[FindTask(ts, taskToShiftId)].start)

\* delta of handleUpdateTaskInterval for two existing tasks
IntervalDelta(ts, previousTaskId, taskToShiftId, newInterval) ==
    differenceInDays(
        addDays(ts[FindTask(ts, previousTaskId)].end, newInterval),
        ts[FindTask(ts, taskToShiftId)].start)

\* the early returns: a task is unknown, the delta is 0, the group is unknown
IntervalIsNoOp(ts, gs, groupId, previousTaskId, taskToShiftId, newInterval) ==
    \/ FindTask(ts, previousTaskId) = 0
    \/ FindTask(ts, taskToShiftId) = 0
    \/ IntervalDelta(ts, previousTaskId, taskToShiftId, newInterval) = 0
    \/ FindGroup(gs, groupId) = 0

IntervalUpdatedTasks(ts, gs, groupId, previousTaskId, taskToShiftId, newInterval) ==
    LET delta == IntervalDelta(ts, previousTaskId, taskToShiftId, newInterval)
        idsToShift == IdsToShift(ts, gs[FindGroup(gs, groupId)], taskToShiftId)
    IN [i \in DOMAIN ts |->
          IF ts[i].id \in idsToShift THEN ShiftTask(ts[i], delta) ELSE ts[i]]

handleUpdateTaskInterval(groupId, previousTaskId, taskToShiftId, newInterval) ==
    /\ currentProjectId = TheProject
    /\ IF IntervalIsNoOp(tasks, taskGroups, groupId, previousTaskId,
                         taskToShiftId, newInterval)
       THEN /\ stamped' = FALSE
            /\ UNCHANGED <<tasks, warnings>>
       ELSE /\ tasks' = IntervalUpdatedTasks(tasks, taskGroups, groupId,
                             previousTaskId, taskToShiftId, newInterval)
            /\ warnings' = checkForWarnings(tasks')
            /\ stamped' = TRUE
    /\ UNCHANGED <<taskGroups, selectedTaskIds, currentProjectId, groupClock>>
    /\ UNCHANGED <<resizeVars, renderVars, pc>>

----------------------------------------------------------------------------
(* handleReorderGroupTasks *)

\* the for-loop from index i on: taskUpdates as a map from id to new dates
RECURSIVE ReorderLoop(_, _, _, _)
ReorderLoop(groupTasks, i, lastEndDate, taskUpdates) ==
    IF i > Len(groupTasks) THEN taskUpdates
    ELSE LET task == groupTasks[i]
             newStart == addDays(lastEndDate, 1)
             duration == differenceInDays(task.end, task.start)
             newEnd == addDays(newStart, duration)
         IN ReorderLoop(groupTasks, i + 1, newEnd,
                (task.id :> [start |-> newStart, end |-> newEnd]) @@ taskUpdates)

\* the chain is started from the start of the first task
TaskUpdatesFromStart(ts, newOrderedTaskIds) ==
    LET groupTasks == ResolveTasks(ts, newOrderedTaskIds)
    IN ReorderLoop(groupTasks, 2, groupTasks[1].start, <<>>)

\* durationMap, lastEndDate and the loop of handleReorderGroupTasks
TaskUpdates(ts, newOrderedTaskIds) ==
    LET groupTasks == ResolveTasks(ts, newOrderedTaskIds)
    IN ReorderLoop(groupTasks, 2, groupTasks[1].end, <<>>)

ReorderedTasks(ts, newOrderedTaskIds) ==
    LET taskUpdates == TaskUpdates(ts, newOrderedTaskIds)
    IN [i \in DOMAIN ts |->
          IF ts[i].id \in DOMAIN taskUpdates
          THEN [ts[i] EXCEPT !.start = taskUpdates[ts[i].id].start,
                             !.end = taskUpdates[ts[i].id].end]
          ELSE ts[i]]

\* the group with this id is handed the array as its taskIds
ReorderedGroups(gs, groupId, newOrderedTaskIds) ==
    [g \in DOMAIN gs |->
        IF gs[g].id = groupId
        THEN [gs[g] EXCEPT !.taskIds = newOrderedTaskIds]
        ELSE gs[g]]

handleReorderGroupTasks(groupId, newOrderedTaskIds) ==
    /\ currentProjectId = TheProject
    /\ IF Len(ResolveTasks(tasks, newOrderedTaskIds)) < 2
       THEN /\ stamped' = FALSE
            /\ UNCHANGED <<tasks, taskGroups, warnings>>
       ELSE /\ tasks' = ReorderedTasks(tasks, newOrderedTaskIds)
            /\ warnings' = checkForWarnings(tasks')
            /\ taskGroups' = ReorderedGroups(taskGroups, groupId, newOrderedTaskIds)
            /\ stamped' = TRUE
    /\ UNCHANGED <<selectedTaskIds, currentProjectId, groupClock>>
    /\ UNCHANGED <<resizeVars, renderVars, pc>>

\* GroupRelationshipView.handleDrop: the ids the view hands to onReorderTasks
\* when card draggedItemId is dropped on card targetTaskId of the group
RECURSIVE TaskIdsOf(_)
TaskIdsOf(ts) ==
    IF ts = <<>> THEN <<>> ELSE <<Head(ts).id>> \o TaskIdsOf(Tail(ts))

IndexOf(ids, x) ==
    IF Includes(ids, x)
    THEN CHOOSE i \in DOMAIN ids : ids[i] = x /\ \A j \in 1..(i - 1) : ids[j] # x
    ELSE 0

\* ids.splice(index, 1) then ids.splice(targetIndex, 0, removed); indices are
\* 1-based here, 0 standing for the code's -1 (splice(-1, 1) takes the last)
DropOrder(ts, groupId, draggedItemId, targetTaskId) ==
    LET currentIds == TaskIdsOf(SortByStart(
                          SelectSeq(ts, LAMBDA t : t.groupId = groupId)))
        n == Len(currentIds)
        d == IndexOf(currentIds, draggedItemId)
        from == IF d = 0 THEN n ELSE d
        removed == currentIds[from]
        rest == SubSeq(currentIds, 1, from - 1) \o SubSeq(currentIds, from + 1, n)
        t == IndexOf(currentIds, targetTaskId)
    IN SubSeq(rest, 1, t - 1) \o <<removed>> \o SubSeq(rest, t, n - 1)

----------------------------------------------------------------------------
(* handleDeleteGroup (the user confirms the dialog) *)

handleDeleteGroup(groupId) ==
    /\ currentProjectId = TheProject
    /\ LET g == FindGroup(taskGroups, groupId)
       IN IF g = 0
          THEN /\ stamped' = FALSE
               /\ UNCHANGED <<tasks, taskGroups>>
          ELSE /\ tasks' = [i \in DOMAIN tasks |->
                     IF Includes(taskGroups[g].taskIds, tasks[i].id)
                     THEN [tasks[i] EXCEPT !.groupId = Undefined]
                     ELSE tasks[i]]
               /\ taskGroups' = SelectSeq(taskGroups, LAMBDA x : x.id # groupId)
               /\ stamped' = TRUE
    /\ UNCHANGED <<warnings, selectedTaskIds, currentProjectId, groupClock>>
    /\ UNCHANGED <<resizeVars, renderVars, pc>>

----------------------------------------------------------------------------
(* handleImportData, from the point where the file has been parsed *)

handleImportData(parsedTasks) ==
    /\ currentProjectId = TheProject
    /\ tasks' = parsedTasks
    /\ warnings' = checkForWarnings(parsedTasks)
    /\ stamped' = TRUE
    /\ UNCHANGED <<taskGroups, selectedTaskIds, currentProjectId, groupClock>>
    /\ UNCHANGED <<resizeVars, renderVars, pc>>

----------------------------------------------------------------------------
(* handleMultiSelectTasks: the ids under a multi-touch, in touch order *)

handleMultiSelectTasks(taskIds) ==
    /\ currentProjectId = TheProject
    /\ selectedTaskIds' = taskIds
    /\ UNCHANGED <<tasks, taskGroups, warnings, currentProjectId, groupClock,
                   stamped>>
    /\ UNCHANGED <<resizeVars, renderVars, pc>>

----------------------------------------------------------------------------
(* The resize gesture of CalendarView and GanttChartView.  resizingInfo is  *)
(* {taskId, side, originalTask}; `captured` is the resizePreview seen by    *)
(* the handleMouseUp closure of CalendarView.tsx, taken when its effect ran *)
(* (GanttChartView and the later CalendarView read a ref kept equal to the  *)
(* state instead).  onResizeTask is a prop: its calls are recorded.         *)

NoCall == [taskId |-> 0]

ResizingInfo(view, task, side) ==
    [taskId |-> task.id, side |-> side, originalTask |-> task, view |-> view,
     captured |-> NoPreview]

Preview(start, end) == [start |-> start, end |-> end]

\* the boundary follows the pointer without a clamp
ResizeFollowPointer(side, originalTask, currentDate) ==
    IF side = "start"
    THEN Preview(currentDate, originalTask.end)
    ELSE Preview(originalTask.start, currentDate)

\* the preview computed by handleMouseMove for the day under the pointer
ResizeClamp(side, originalTask, currentDate) ==
    IF side = "start"
    THEN Preview(IF isAfter(currentDate, originalTask.end)
                 THEN originalTask.end ELSE currentDate,
                 originalTask.end)
    ELSE Preview(originalTask.start,
                 IF isBefore(currentDate, originalTask.start)
                 THEN originalTask.start ELSE currentDate)

\* handleResizeMouseDown, and the effect it triggers: the listeners are
\* attached (the closure sees the preview of this render) and the preview is
\* initialised to the task's own dates
handleResizeMouseDown(view, t, side) ==
    /\ currentProjectId = TheProject
    /\ resizingInfo = NoResize
    /\ t \in DOMAIN tasks
    /\ resizingInfo' = [ResizingInfo(view, tasks[t], side)
                           EXCEPT !.captured = resizePreview]
    /\ resizePreview' = Preview(tasks[t].start, tasks[t].end)
    /\ UNCHANGED <<resizeCall, projectVars, renderVars, pc>>

handleMouseMove(currentDate) ==
    /\ resizingInfo # NoResize
    /\ resizePreview' = ResizeClamp(resizingInfo.side,
                                    resizingInfo.originalTask, currentDate)
    /\ UNCHANGED <<resizingInfo, resizeCall, projectVars, renderVars, pc>>

\* the effect of CalendarView.tsx runs again when the parent hands over a new
\* onResizeTask: new closures, and the preview is initialised again
ResizeEffectRerun ==
    /\ resizingInfo # NoResize
    /\ resizingInfo.view = "calendar"
    /\ resizingInfo' = [resizingInfo EXCEPT !.captured = resizePreview]
    /\ resizePreview' = Preview(resizingInfo.originalTask.start,
                                resizingInfo.originalTask.end)
    /\ UNCHANGED <<resizeCall, projectVars, renderVars, pc>>

\* what handleMouseUp reads as the preview
MouseUpPreview ==
    IF resizingInfo.view = "calendar"
    THEN resizingInfo.captured
    ELSE resizePreview

handleMouseUp ==
    /\ resizingInfo # NoResize
    /\ resizeCall' =
          IF MouseUpPreview = NoPreview
          THEN resizeCall
          ELSE [taskId |-> resizingInfo.taskId,
                newStartDate |-> MouseUpPreview.start,
                newEndDate |-> MouseUpPreview.end,
                info |-> resizingInfo]
    /\ resizingInfo' = NoResize
    /\ resizePreview' = NoPreview
    /\ UNCHANGED <<projectVars, renderVars, pc>>

----------------------------------------------------------------------------
(* The week rows of CalendarView: filter, sort and lane packing *)

\* the sort comparator of tasksInWeek
WeekCompare(a, b) ==
    IF a.start - b.start # 0
    THEN a.start - b.start
    ELSE (b.end - a.start) - (a.end - a.start)

\* Array.prototype.sort with WeekCompare, stable
RECURSIVE InsertForWeek(_, _)
InsertForWeek(sorted, t) ==
    IF sorted = <<>> THEN <<t>>
    ELSE IF WeekCompare(Head(sorted), t) <= 0
         THEN <<Head(sorted)>> \o InsertForWeek(Tail(sorted), t)
         ELSE <<t>> \o sorted

RECURSIVE SortForWeek(_)
SortForWeek(s) ==
    IF s = <<>> THEN <<>>
    ELSE InsertForWeek(SortForWeek(SubSeq(s, 1, Len(s) - 1)), s[Len(s)])

WeekEnd(ws) == addDays(ws, 6)

TasksInWeek(tasksToRender, ws) ==
    SortForWeek(SelectSeq(tasksToRender,
                          LAMBDA t : t.start <= WeekEnd(ws) /\ t.end >= ws))

StartDay(task, ws) ==
    IF isBefore(task.start, ws) THEN 0 ELSE differenceInDays(task.start, ws)

EndDay(task, ws) ==
    IF isAfter(task.end, WeekEnd(ws)) THEN 6 ELSE differenceInDays(task.end, ws)

\* Array(7).fill(null): slot d + 1 holds the id of the task on day d, 0 = null
EmptyRow == [d \in 1..7 |-> 0]

\* a look at the last day of the span only
CanPlaceLastDayOnly(row, startDay, endDay) ==
    endDay \in 0..6 => row[endDay + 1] = 0

\* !rows[targetRow].slice(startDay, endDay + 1).some(Boolean)
CanPlace(row, startDay, endDay) ==
    \A d \in startDay..endDay : d \in 0..6 => row[d + 1] = 0

\* a new row is opened for every task
AlwaysNewRow(rows, startDay, endDay, targetRow) == Len(rows)

\* the while (true) loop: the first row, from targetRow on, that can take the
\* span; rows is extended by one empty row when targetRow runs past its end
RECURSIVE TargetRow(_, _, _, _)
TargetRow(rows, startDay, endDay, targetRow) ==
    IF Len(rows) <= targetRow THEN targetRow
    ELSE IF CanPlace(rows[targetRow + 1], startDay, endDay) THEN targetRow
    ELSE TargetRow(rows, startDay, endDay, targetRow + 1)

\* the task is written into the first day of its span only
PlaceTaskOnStartDay(rows, taskId, startDay, endDay, targetRow) ==
    LET grown == IF Len(rows) <= targetRow THEN Append(rows, EmptyRow) ELSE rows
    IN [grown EXCEPT ![targetRow + 1] =
           [d \in 1..7 |-> IF d - 1 = startDay THEN taskId ELSE @[d]]]

\* rows after the task has been written into its row
PlaceTask(rows, taskId, startDay, endDay, targetRow) ==
    LET grown == IF Len(rows) <= targetRow THEN Append(rows, EmptyRow) ELSE rows
    IN [grown EXCEPT ![targetRow + 1] =
           [d \in 1..7 |-> IF (d - 1) \in startDay..endDay THEN taskId ELSE @[d]]]

\* tasksInWeek.forEach from index i on; result: <<taskLayoutRows, rows>>
RECURSIVE PackLoop(_, _, _, _, _)
PackLoop(tasksInWeek, ws, i, layout, rows) ==
    IF i > Len(tasksInWeek) THEN <<layout, rows>>
    ELSE LET task == tasksInWeek[i]
             startDay == StartDay(task, ws)
             endDay == EndDay(task, ws)
             targetRow == TargetRow(rows, startDay, endDay, 0)
         IN PackLoop(tasksInWeek, ws, i + 1,
                Append(layout, [task |-> task.id, row |-> targetRow,
                                startDay |-> startDay,
                                span |-> endDay - startDay + 1]),
                PlaceTask(rows, task.id, startDay, endDay, targetRow))

PackWeek(tasksToRender, ws) ==
    PackLoop(TasksInWeek(tasksToRender, ws), ws, 1, <<>>, <<>>)

\* rendering the week that starts on day ws
RenderWeek(ws) ==
    /\ weekStart' = ws
    /\ taskLayoutRows' = PackWeek(tasks, ws)[1]
    /\ rowCount' = Len(PackWeek(tasks, ws)[2])
    /\ UNCHANGED <<projectVars, resizeVars, pc>>

----------------------------------------------------------------------------
(* Input sets *)

\* the ids of the tasks of a list
IdsOf(ts) == {ts[i].id : i \in DOMAIN ts}

\* every date of the list lies in the set of days D
DatesIn(ts, D) == \A i \in DOMAIN ts : ts[i].start \in D /\ ts[i].end \in D

\* the arrays without repetition over a set of ids, of length lo..hi
RECURSIVE ArraysOver(_, _)
ArraysOver(S, n) ==
    IF n = 0 THEN {<<>>}
    ELSE {Append(a, x) : a \in ArraysOver(S, n - 1), x \in S}

DistinctArrays(S, lo, hi) ==
    UNION {{a \in ArraysOver(S, n) : Cardinality(Range(a)) = n} : n \in lo..hi}

\* the date pairs with start <= end over a set of days
Spans(D) == {d \in D \X D : d[1] <= d[2]}

\* a parsed .ics file of n events: tasks numbered from 1, no predecessor, no
\* group; the dates se[i] are whatever DTSTART / DTEND say
TaskList(n, se) ==
    [i \in 1..n |-> Task(i, se[i][1], se[i][2], Undefined, Undefined)]

\* the consecutive pairs of a group as GroupRelationshipView lists them
ViewGroupTasks(ts, groupId) ==
    SortByStart(SelectSeq(ts, LAMBDA t : t.groupId = groupId))

----------------------------------------------------------------------------
(* The facade: every command of the App on one stored project *)

\* what localStorage may hold for the project: nothing yet, or two tasks of
\* which the second starts before its predecessor ends
StoredTasks ==
    {<<>>,
     <<Task(1, 0, 1, Undefined, Undefined), Task(2, 0, 1, 1, Undefined)>>}

\* no resize gesture under way, no call of onResizeTask yet
NoGesture ==
    /\ resizingInfo = NoResize
    /\ resizePreview = NoPreview
    /\ resizeCall = NoCall

\* no week rendered yet
NoRender ==
    /\ weekStart = NoWeek
    /\ taskLayoutRows = <<>>
    /\ rowCount = 0

\* the App state after mount, before a project is opened
Mounted ==
    /\ warnings = <<>>
    /\ selectedTaskIds = <<>>
    /\ groupClock = 0
    /\ stamped = FALSE

Init ==
    /\ tasks \in StoredTasks
    /\ taskGroups = <<>>
    /\ currentProjectId = NoProject
    /\ Mounted
    /\ NoGesture
    /\ NoRender
    /\ pc = "app"

\* the form: dates in order, the predecessor one of the other tasks or none
SaveTask ==
    \E id \in IdsOf(tasks) \cup {Undefined}, start \in Days, end \in Days :
        \E predecessorId \in (IdsOf(tasks) \ {id}) \cup {Undefined} :
            /\ start <= end
            /\ handleSaveTask(id, start, end, predecessorId)
            /\ IdsOf(tasks') \subseteq TaskIds

DragTask ==
    \E id \in IdsOf(tasks), newStartDate \in Days :
        /\ handleDragTask(id, newStartDate)
        /\ DatesIn(tasks', Days)

SelectTask ==
    \E id \in IdsOf(tasks), isCtrlOrMetaKey \in BOOLEAN :
        handleSelectTask(id, isCtrlOrMetaKey)

MultiSelectTasks ==
    \E ids \in DistinctArrays(IdsOf(tasks), 2, Cardinality(IdsOf(tasks))) :
        handleMultiSelectTasks(ids)

CreateGroup ==
    /\ handleCreateGroup
    /\ groupClock' <= MaxGroupClock

UngroupTask == \E id \in IdsOf(tasks) : handleUngroupTask(id)

\* the delete key on the selection, or the delete button of the form
DeleteTasks ==
    \/ handleDeleteTasks(selectedTaskIds)
    \/ \E id \in IdsOf(tasks) : handleDeleteTasks(<<id>>)

\* the interval field between two neighbouring cards of a group
UpdateTaskInterval ==
    \E g \in DOMAIN taskGroups, newInterval \in (-MaxDay)..MaxDay :
        LET groupTasks == ViewGroupTasks(tasks, taskGroups[g].id)
        IN \E k \in 1..(Len(groupTasks) - 1) :
              /\ handleUpdateTaskInterval(taskGroups[g].id, groupTasks[k].id,
                                          groupTasks[k + 1].id, newInterval)
              /\ DatesIn(tasks', Days)

\* a card of a group dropped on another card of the group
ReorderGroupTasks ==
    \E g \in DOMAIN taskGroups :
        LET ids == IdsOf(ViewGroupTasks(tasks, taskGroups[g].id))
        IN \E draggedItemId \in ids, targetTaskId \in ids :
              /\ draggedItemId # targetTaskId
              /\ handleReorderGroupTasks(taskGroups[g].id,
                    DropOrder(tasks, taskGroups[g].id, draggedItemId, targetTaskId))
              /\ DatesIn(tasks', Days)

DeleteGroup == \E g \in DOMAIN taskGroups : handleDeleteGroup(taskGroups[g].id)

\* an .ics file of up to MaxImport events
ImportData ==
    \E n \in 0..MaxImport :
        \E se \in [1..n -> Days \X Days] : handleImportData(TaskList(n, se))

Next ==
    \/ SelectProject
    \/ BackToProjects
    \/ SaveTask
    \/ DragTask
    \/ SelectTask
    \/ MultiSelectTasks
    \/ CreateGroup
    \/ UngroupTask
    \/ DeleteTasks
    \/ UpdateTaskInterval
    \/ ReorderGroupTasks
    \/ DeleteGroup
    \/ ImportData

Spec == Init /\ [][Next]_vars

\* C2: while a project is open, the stored warnings list equals the conflict
\* detector's output on the project's current task collection (never stale)
WarningsNeverStale ==
    currentProjectId = TheProject => warnings = checkForWarnings(tasks)

\* a warning is on display for a task that no longer exists
WarningOfDeletedTask ==
    /\ currentProjectId = TheProject
    /\ \E w \in DOMAIN warnings : warnings[w].taskId \notin IdsOf(tasks)

----------------------------------------------------------------------------
(* The calendar alone: one task list, its weeks rendered *)

\* the weeks that hold a day of 0..PackMaxDay
PackWeeks == {7 * w : w \in 0..(PackMaxDay \div 7)}

InitPack ==
    /\ \E n \in 0..PackMaxTasks :
          \E se \in [1..n -> Spans(0..PackMaxDay)] : tasks = TaskList(n, se)
    /\ taskGroups = <<>>
    /\ currentProjectId = TheProject
    /\ Mounted
    /\ NoGesture
    /\ NoRender
    /\ pc = "calendar"

NextPack == \E ws \in PackWeeks : RenderWeek(ws)

SpecPack == InitPack /\ [][NextPack]_vars

\* the days of the week a layout entry covers
SpanDays(entry) == entry.startDay..(entry.startDay + entry.span - 1)

\* C1: after the packing loop of a week, no two tasks placed in the same row
\* have clipped day-spans [startDay, startDay + span - 1] that share a day
LanePackingNonOverlap ==
    \A i \in DOMAIN taskLayoutRows, j \in DOMAIN taskLayoutRows :
        (i # j /\ taskLayoutRows[i].row = taskLayoutRows[j].row)
            => SpanDays(taskLayoutRows[i]) \cap SpanDays(taskLayoutRows[j]) = {}

\* a rendered week in which two tasks share row 0 and a third, overlapping one
\* of them, was pushed to row 1
LanePackingWitness ==
    /\ weekStart # NoWeek
    /\ \E i \in DOMAIN taskLayoutRows, j \in DOMAIN taskLayoutRows :
          /\ i # j
          /\ taskLayoutRows[i].row = 0
          /\ taskLayoutRows[j].row = 0
    /\ \E i \in DOMAIN taskLayoutRows, j \in DOMAIN taskLayoutRows :
          /\ taskLayoutRows[i].row = 0
          /\ taskLayoutRows[j].row = 1
          /\ SpanDays(taskLayoutRows[i]) \cap SpanDays(taskLayoutRows[j]) # {}

----------------------------------------------------------------------------
(* The conflict detector alone: one task collection, one detection pass *)

InitDetect ==
    /\ \E n \in 0..DetectMaxTasks :
          \E se \in [1..n -> (0..DetectMaxDay) \X (0..DetectMaxDay)],
             pred \in [1..n -> 0..(DetectMaxTasks + 1)] :
              tasks = [i \in 1..n |->
                          Task(i, se[i][1], se[i][2], pred[i], Undefined)]
    /\ taskGroups = <<>>
    /\ currentProjectId = TheProject
    /\ Mounted
    /\ NoGesture
    /\ NoRender
    /\ pc = "detector"

\* checkForWarnings(tasks), ending in setWarnings(newWarnings)
Detect ==
    /\ pc = "detector"
    /\ warnings' = checkForWarnings(tasks)
    /\ pc' = "detected"
    /\ UNCHANGED <<tasks, taskGroups, selectedTaskIds, currentProjectId,
                   groupClock, stamped>>
    /\ UNCHANGED <<resizeVars, renderVars>>

NextDetect == Detect

SpecDetect == InitDetect /\ [][NextDetect]_vars

\* task i starts before the end of the task its predecessorId resolves to
StartsBeforePredecessorEnds(i) ==
    \E p \in DOMAIN tasks :
        /\ tasks[p].id = tasks[i].predecessorId
        /\ tasks[i].start < tasks[p].end

\* the warnings that name the task with this id
WarningsOf(id) == {w \in DOMAIN warnings : warnings[w].taskId = id}

\* C3: the detector produces exactly one warning for each task whose
\* predecessorId resolves to a task p of the collection with task.start < p.end
\* and none for any other task (equal boundary, no predecessor, or a
\* predecessorId that resolves to no task)
WarningExactness ==
    pc = "detected" =>
        /\ \A i \in DOMAIN tasks :
              Cardinality(WarningsOf(tasks[i].id)) =
                  IF StartsBeforePredecessorEnds(i) THEN 1 ELSE 0
        /\ \A w \in DOMAIN warnings : warnings[w].taskId \in IdsOf(tasks)

\* a pass over a collection with one conflict, one task that starts exactly
\* when its predecessor ends and one task whose predecessor does not resolve
WarningExactnessWitness ==
    /\ pc = "detected"
    /\ Len(warnings) = 1
    /\ \E i \in DOMAIN tasks : StartsBeforePredecessorEnds(i)
    /\ \E i \in DOMAIN tasks, p \in DOMAIN tasks :
          /\ tasks[p].id = tasks[i].predecessorId
          /\ tasks[i].start = tasks[p].end
    /\ \E i \in DOMAIN tasks :
          /\ tasks[i].predecessorId # Undefined
          /\ tasks[i].predecessorId \notin IdsOf(tasks)

----------------------------------------------------------------------------
(* The resize gesture alone: one task, its handles dragged in either view *)

\* the days the pointer can be over: the dates and one day beyond either end
PointerDays == (-1)..(ResizeMaxDay + 1)

InitResize ==
    /\ \E se \in Spans(0..ResizeMaxDay) :
          tasks = <<Task(1, se[1], se[2], Undefined, Undefined)>>
    /\ taskGroups = <<>>
    /\ currentProjectId = TheProject
    /\ Mounted
    /\ NoGesture
    /\ NoRender
    /\ pc = "resize"

ResizeMouseDown ==
    \E view \in {"calendar", "gantt"}, t \in DOMAIN tasks, side \in {"start", "end"} :
        handleResizeMouseDown(view, t, side)

MouseMove == \E currentDate \in PointerDays : handleMouseMove(currentDate)

NextResize ==
    \/ ResizeMouseDown
    \/ MouseMove
    \/ ResizeEffectRerun
    \/ handleMouseUp

SpecResize == InitResize /\ [][NextResize]_vars

Min(a, b) == IF a <= b THEN a ELSE b
Max(a, b) == IF a >= b THEN a ELSE b

\* the pair of the last call of onResizeTask is in order and keeps the
\* boundary opposite to the dragged side of the task as it was at mouse-down
ResizeCallInOrder ==
    resizeCall # NoCall =>
        /\ resizeCall.newStartDate <= resizeCall.newEndDate
        /\ resizeCall.info.side = "start" =>
              resizeCall.newEndDate = resizeCall.info.originalTask.end
        /\ resizeCall.info.side = "end" =>
              resizeCall.newStartDate = resizeCall.info.originalTask.start

\* a pointer move over day d yields (min(d, end), end) on side 'start' and
\* (start, max(d, start)) on side 'end'
ResizeMoveClamps ==
    \A d \in PointerDays :
        handleMouseMove(d) =>
            LET o == resizingInfo.originalTask
            IN IF resizingInfo.side = "start"
               THEN resizePreview' = Preview(Min(d, o.end), o.end)
               ELSE resizePreview' = Preview(o.start, Max(d, o.start))

\* C8: a resize on a task with start <= end and any pointer date d yields
\* (min(d, end), end) on side 'start' and (start, max(d, start)) on side 'end';
\* the pair handed to onResizeTask has start <= end and the opposite boundary
\* unchanged
ResizeClampsNeverInverts == [][ResizeMoveClamps]_vars /\ []ResizeCallInOrder

\* onResizeTask was called at the end of a gesture whose pointer had gone past
\* the opposite boundary, so that the clamp decided the pair
ResizeClampsWitness ==
    /\ resizeCall # NoCall
    /\ resizeCall.newStartDate = resizeCall.newEndDate
    /\ resizeCall.info.originalTask.start < resizeCall.info.originalTask.end

----------------------------------------------------------------------------
(* The schedule commands with any arguments, on tasks whose dates are in    *)
(* order, over a horizon that holds every weekday                           *)

DatesDays == 0..DatesMaxDay

\* the ids a command may name: those of the tasks and one that is unknown
AnyTaskIds == 1..(DatesMaxTasks + 1)

\* the group ids a command may name: those created and one that is unknown
AnyGroupIds == 1..(DatesMaxGroups + 1)

InitDates ==
    /\ \E n \in 1..DatesMaxTasks :
          \E se \in [1..n -> Spans(DatesDays)] : tasks = TaskList(n, se)
    /\ taskGroups = <<>>
    /\ currentProjectId = TheProject
    /\ Mounted
    /\ NoGesture
    /\ NoRender
    /\ pc = "schedule"

MoveAny ==
    \E id \in AnyTaskIds, newStartDate \in DatesDays :
        /\ handleDragTask(id, newStartDate)
        /\ DatesIn(tasks', DatesDays)

UpdateIntervalAny ==
    \E groupId \in AnyGroupIds, previousTaskId \in AnyTaskIds,
       taskToShiftId \in AnyTaskIds,
       newInterval \in (-DatesMaxInterval)..DatesMaxInterval :
        /\ handleUpdateTaskInterval(groupId, previousTaskId, taskToShiftId,
                                    newInterval)
        /\ DatesIn(tasks', DatesDays)

\* any array of ids without repetition
ReorderAny ==
    \E groupId \in AnyGroupIds :
        \E newOrderedTaskIds \in DistinctArrays(AnyTaskIds, 0, DatesMaxTasks) :
            /\ handleReorderGroupTasks(groupId, newOrderedTaskIds)
            /\ DatesIn(tasks', DatesDays)

CreateGroupOnce ==
    /\ handleCreateGroup
    /\ groupClock' <= DatesMaxGroups

UngroupAny == \E id \in AnyTaskIds : handleUngroupTask(id)

DeleteAny ==
    \/ handleDeleteTasks(selectedTaskIds)
    \/ \E id \in AnyTaskIds : handleDeleteTasks(<<id>>)

DeleteGroupAny == \E groupId \in AnyGroupIds : handleDeleteGroup(groupId)

NextDates ==
    \/ MoveAny
    \/ UpdateIntervalAny
    \/ ReorderAny
    \/ SelectTask
    \/ CreateGroupOnce
    \/ UngroupAny
    \/ DeleteAny
    \/ DeleteGroupAny

SpecDates == InitDates /\ [][NextDates]_vars


\* C9: from a project in which every task has start <= end, every task has
\* start <= end after any sequence of move, setInterval, reorder, createGroup,
\* ungroup, deleteItems and deleteGroup commands with any arguments
DateOrderInvariant ==
    \A i \in DOMAIN tasks : tasks[i].start <= tasks[i].end

\* the last command wrote the project, which holds a group of two tasks of
\* more than one day each, the second starting the day after the first ends
DateOrderWitness ==
    /\ stamped
    /\ \E g \in DOMAIN taskGroups, a \in DOMAIN tasks, b \in DOMAIN tasks :
          /\ taskGroups[g].taskIds = <<tasks[a].id, tasks[b].id>>
          /\ tasks[a].start < tasks[a].end
          /\ tasks[b].start < tasks[b].end
          /\ tasks[b].start = tasks[a].end + 1

----------------------------------------------------------------------------
(* Moves alone, over two weeks: one or two tasks, ungrouped or one group *)

MoveDays == 0..MoveMaxDay

InitMove ==
    /\ \E n \in 1..MoveMaxTasks :
          \E se \in [1..n -> Spans(MoveDays)], grouped \in BOOLEAN :
              IF grouped /\ n >= 2
              THEN /\ tasks = [i \in 1..n |->
                                  [TaskList(n, se)[i] EXCEPT !.groupId = 1]]
                   /\ taskGroups = <<TaskGroup(1, [i \in 1..n |-> i])>>
                   /\ groupClock = 1
              ELSE /\ tasks = TaskList(n, se)
                   /\ taskGroups = <<>>
                   /\ groupClock = 0
    /\ currentProjectId = TheProject
    /\ warnings = <<>>
    /\ selectedTaskIds = <<>>
    /\ stamped = FALSE
    /\ NoGesture
    /\ NoRender
    /\ pc = "move"

\* a bar dropped on a day of the calendar or of the Gantt chart
MoveTask ==
    \E id \in 1..(MoveMaxTasks + 1), newStartDate \in MoveDays :
        /\ handleDragTask(id, newStartDate)
        /\ DatesIn(tasks', MoveDays)

NextMove == MoveTask

SpecMove == InitMove /\ [][NextMove]_vars

\* task id of ts
TaskOf(ts, id) == ts[FindTask(ts, id)]

\* C4: for every ungrouped task with start <= end and every newStart, the
\* calendar-day difference end - start after handleDragTask equals the one
\* before the move
MovePreservesCalendarDuration ==
    [][\A id \in IdsOf(tasks), newStartDate \in MoveDays :
          (/\ TaskOf(tasks, id).groupId = Undefined
           /\ TaskOf(tasks, id).start <= TaskOf(tasks, id).end
           /\ handleDragTask(id, newStartDate))
          => differenceInDays(TaskOf(tasks', id).end, TaskOf(tasks', id).start)
               = differenceInDays(TaskOf(tasks, id).end, TaskOf(tasks, id).start)
      ]_vars

\* C5: when a grouped task is moved by a day delta d # 0, every member of its
\* group has both its start and its end shifted by exactly d
GroupCoMove ==
    [][\A id \in IdsOf(tasks), newStartDate \in MoveDays :
          (/\ TaskOf(tasks, id).groupId # Undefined
           /\ FindGroup(taskGroups, TaskOf(tasks, id).groupId) # 0
           /\ newStartDate # TaskOf(tasks, id).start
           /\ handleDragTask(id, newStartDate))
          => LET d == newStartDate - TaskOf(tasks, id).start
                 group == taskGroups[FindGroup(taskGroups,
                                               TaskOf(tasks, id).groupId)]
             IN \A m \in Range(group.taskIds) \cap IdsOf(tasks) :
                   /\ TaskOf(tasks', m).start = TaskOf(tasks, m).start + d
                   /\ TaskOf(tasks', m).end = TaskOf(tasks, m).end + d
      ]_vars

\* C6: for every task and every move, the business-day duration of the task
\* after the move equals its business-day duration before the move
MoveKeepsBusinessDuration ==
    [][\A id \in IdsOf(tasks), newStartDate \in MoveDays :
          handleDragTask(id, newStartDate)
          => \A m \in IdsOf(tasks) :
                differenceInBusinessDays(TaskOf(tasks', m).end,
                                         TaskOf(tasks', m).start)
                  = differenceInBusinessDays(TaskOf(tasks, m).end,
                                             TaskOf(tasks, m).start)
      ]_vars

\* C7: the tasks after a move to D are the same whether the move is made
\* directly or after an interim move of the same task, and a second move to D
\* right afterwards changes nothing
MoveIdempotentUnderInterimCalls ==
    \A id \in IdsOf(tasks), D \in MoveDays :
        LET direct == DragResult(tasks, taskGroups, id, D)
        IN /\ DragResult(direct, taskGroups, id, D) = direct
           /\ \A Di \in MoveDays :
                 DragResult(DragResult(tasks, taskGroups, id, Di),
                            taskGroups, id, D) = direct

----------------------------------------------------------------------------
(* The group commands on a project of GroupMaxTasks one-day tasks *)

InitGroups ==
    /\ tasks = TaskList(GroupMaxTasks, [i \in 1..GroupMaxTasks |-> <<0, 0>>])
    /\ taskGroups = <<>>
    /\ currentProjectId = TheProject
    /\ Mounted
    /\ NoGesture
    /\ NoRender
    /\ pc = "groups"

\* an .ics file of up to MaxImport events, all on day 0
ImportSameDay ==
    \E n \in 0..MaxImport :
        handleImportData(TaskList(n, [i \in 1..n |-> <<0, 0>>]))

NextGroups ==
    \/ SelectTask
    \/ CreateGroup
    \/ UngroupTask
    \/ DeleteTasks
    \/ DeleteGroup
    \/ ReorderGroupTasks
    \/ DragTask
    \/ UpdateTaskInterval
    \/ ImportSameDay

SpecGroups == InitGroups /\ [][NextGroups]_vars

\* C10: every group in taskGroups has at least 2 ids in taskIds
MinimumGroupSize ==
    \A g \in DOMAIN taskGroups : Len(taskGroups[g].taskIds) >= 2

\* a group was created and a command has removed it again: a task is gone,
\* no group is left and no task carries a groupId
MinimumGroupSizeWitness ==
    /\ stamped
    /\ groupClock >= 1
    /\ taskGroups = <<>>
    /\ Len(tasks) = GroupMaxTasks - 1
    /\ \A i \in DOMAIN tasks : tasks[i].groupId = Undefined

\* C11: in every state reachable by createGroup, ungroup, deleteItems,
\* deleteGroup, reorder and task import, no task id appears in the taskIds of
\* more than one group
SingleGroupMembership ==
    \A g \in DOMAIN taskGroups, h \in DOMAIN taskGroups :
        g # h => Range(taskGroups[g].taskIds) \cap Range(taskGroups[h].taskIds) = {}

\* C12: for every task t and group g of the project, t.groupId = g.id exactly
\* when t.id is in g.taskIds, and no task has a groupId that names no group
GroupConsistency ==
    /\ \A i \in DOMAIN tasks, g \in DOMAIN taskGroups :
          (tasks[i].groupId = taskGroups[g].id)
              <=> Includes(taskGroups[g].taskIds, tasks[i].id)
    /\ \A i \in DOMAIN tasks :
          tasks[i].groupId # Undefined
              => FindGroup(taskGroups, tasks[i].groupId) # 0

----------------------------------------------------------------------------
(* One command on a project that earlier commands have left consistent:    *)
(* tasks 1..n, up to two groups created in this order, every task listed   *)
(* by a group pointing back to it                                          *)

\* the ids a command may name: those of the tasks and one that is unknown
CmdIds(n) == 1..(n + 1)

\* the group lists over tasks 1..n: group-1 and group-2 in creation order,
\* either of them possibly deleted since, their taskIds disjoint
GroupLists(n) ==
    LET members == DistinctArrays(1..n, 2, n)
    IN {<<>>}
       \cup {<<TaskGroup(gid, a)>> : gid \in 1..2, a \in members}
       \cup {<<TaskGroup(1, ab[1]), TaskGroup(2, ab[2])>> :
                 ab \in {x \in members \X members :
                            Range(x[1]) \cap Range(x[2]) = {}}}

\* the groupId of the task: the id of the group that lists it, if any
GroupIdOf(gs, id) ==
    IF \E g \in DOMAIN gs : Includes(gs[g].taskIds, id)
    THEN gs[CHOOSE g \in DOMAIN gs : Includes(gs[g].taskIds, id)].id
    ELSE Undefined

\* the predecessor links: any task but the task itself, or none
PredecessorChoices(n, withPredecessors) ==
    IF withPredecessors
    THEN {p \in [1..n -> 0..n] : \A i \in 1..n : p[i] # i}
    ELSE {[i \in 1..n |-> Undefined]}

\* what may be selected: up to CmdMaxSelected ids, in click order
SelectionChoices(n, withSelection) ==
    IF withSelection
    THEN DistinctArrays(CmdIds(n), 0, CmdMaxSelected)
    ELSE {<<>>}

InitCommand(maxTasks, days, withPredecessors, withSelection, wasStamped, label) ==
    /\ \E n \in 2..maxTasks :
          \E gs \in GroupLists(n), se \in [1..n -> Spans(days)],
             pred \in PredecessorChoices(n, withPredecessors) :
              /\ tasks = [i \in 1..n |->
                     Task(i, se[i][1], se[i][2], pred[i], GroupIdOf(gs, i))]
              /\ taskGroups = gs
              /\ selectedTaskIds \in SelectionChoices(n, withSelection)
    /\ warnings = checkForWarnings(tasks)
    /\ currentProjectId = TheProject
    /\ groupClock = 2
    /\ stamped = wasStamped
    /\ NoGesture
    /\ NoRender
    /\ pc = label

----------------------------------------------------------------------------
(* Ungroup alone *)

NextUngroup == \E id \in CmdIds(Len(tasks)) : handleUngroupTask(id)

SpecUngroup ==
    InitCommand(CmdMaxTasks, {0}, FALSE, FALSE, FALSE, "ungroup")
        /\ [][NextUngroup]_vars

\* the group of taskGroups with this id
GroupOf(gs, gid) == gs[FindGroup(gs, gid)]

\* the task is a member of a group: it points to the group that lists it
IsMember(id) ==
    /\ FindTask(tasks, id) # 0
    /\ TaskOf(tasks, id).groupId # Undefined
    /\ FindGroup(taskGroups, TaskOf(tasks, id).groupId) # 0
    /\ Includes(GroupOf(taskGroups, TaskOf(tasks, id).groupId).taskIds, id)

\* C13: ungroupItem(id) on a member of a group of exactly 2 removes the group
\* and clears groupId on the ungrouped task and on the remaining member; on
\* a group of 3 or more only the ungrouped task loses its groupId and its
\* place in taskIds, the group and the other tasks staying as they were
UngroupDissolution ==
    [][\A id \in IdsOf(tasks) :
          (IsMember(id) /\ handleUngroupTask(id))
          => LET gid == TaskOf(tasks, id).groupId
                 group == GroupOf(taskGroups, gid)
             IN /\ Len(group.taskIds) = 2 =>
                      /\ taskGroups' = SelectSeq(taskGroups, LAMBDA x : x.id # gid)
                      /\ tasks' = [i \in DOMAIN tasks |->
                            IF Includes(group.taskIds, tasks[i].id)
                            THEN [tasks[i] EXCEPT !.groupId = Undefined]
                            ELSE tasks[i]]
                /\ Len(group.taskIds) >= 3 =>
                      /\ taskGroups' = [g \in DOMAIN taskGroups |->
                            IF taskGroups[g].id = gid
                            THEN [taskGroups[g] EXCEPT !.taskIds =
                                     WithoutIds(@, {id})]
                            ELSE taskGroups[g]]
                      /\ tasks' = [i \in DOMAIN tasks |->
                            IF tasks[i].id = id
                            THEN [tasks[i] EXCEPT !.groupId = Undefined]
                            ELSE tasks[i]]
      ]_vars

\* ungroup has written the project and no group is left: the last group
\* was dissolved when it came down to one member, and no task of the four
\* points to a group any more
UngroupDissolutionWitness ==
    /\ pc = "ungroup"
    /\ stamped
    /\ Len(tasks) = 4
    /\ taskGroups = <<>>
    /\ \A i \in DOMAIN tasks : tasks[i].groupId = Undefined

----------------------------------------------------------------------------
(* createGroup alone, on any selection *)

NextCreate == handleCreateGroup

SpecCreate ==
    InitCommand(CmdMaxTasks, {0}, FALSE, TRUE, TRUE, "create")
        /\ [][NextCreate]_vars

\* a selected id refers to a task that already has a groupId
SelectionHoldsGroupedTask ==
    \E i \in DOMAIN tasks :
        tasks[i].id \in Range(selectedTaskIds) /\ tasks[i].groupId # Undefined

\* C14: createGroup leaves tasks and taskGroups unchanged whenever fewer than
\* 2 ids are selected or a selected id refers to a task that already has a
\* groupId; otherwise exactly one new group with exactly the selected ids is
\* added and exactly the selected tasks get its id as groupId
CreateGroupValidation ==
    [][handleCreateGroup =>
          IF Len(selectedTaskIds) < 2 \/ SelectionHoldsGroupedTask
          THEN UNCHANGED <<tasks, taskGroups>>
          ELSE /\ Len(taskGroups') = Len(taskGroups) + 1
               /\ SubSeq(taskGroups', 1, Len(taskGroups)) = taskGroups
               /\ taskGroups'[Len(taskGroups')].taskIds = selectedTaskIds
               /\ \A g \in DOMAIN taskGroups :
                     taskGroups[g].id # taskGroups'[Len(taskGroups')].id
               /\ tasks' = [i \in DOMAIN tasks |->
                     IF tasks[i].id \in Range(selectedTaskIds)
                     THEN [tasks[i] EXCEPT !.groupId =
                              taskGroups'[Len(taskGroups')].id]
                     ELSE tasks[i]]
      ]_vars

\* createGroup was rejected (the stamp of the earlier command is gone, the
\* selection is still there): two or more ids selected, the last of them a
\* task that already belongs to a group, the first of them a free task
CreateGroupValidationWitness ==
    /\ pc = "create"
    /\ ~stamped
    /\ Len(selectedTaskIds) >= 2
    /\ FindTask(tasks, selectedTaskIds[1]) # 0
    /\ TaskOf(tasks, selectedTaskIds[1]).groupId = Undefined
    /\ FindTask(tasks, selectedTaskIds[Len(selectedTaskIds)]) # 0
    /\ TaskOf(tasks, selectedTaskIds[Len(selectedTaskIds)]).groupId # Undefined

----------------------------------------------------------------------------
(* deleteItems alone, on any ids, by either version of the handler *)

\* the ids handed to the handler: up to DeleteMaxIds, known or not
DeleteChoices == DistinctArrays(CmdIds(CmdMaxTasks), 0, DeleteMaxIds)

\* the call deletes exactly the tasks that are gone in the next state
Deletes(ids) == Range(ids) \cap IdsOf(tasks) = IdsOf(tasks) \ IdsOf(tasks')

DeleteIds == \E ids \in DeleteChoices : handleDeleteTasks(ids)

App_DeleteIds == \E ids \in DeleteChoices : App_handleDeleteTasks(ids)

NextDelete ==
    \/ DeleteIds
    \/ App_DeleteIds

\* up to LinkedMaxTasks tasks with predecessor links, or up to CmdMaxTasks
\* tasks without
InitDelete ==
    \/ InitCommand(LinkedMaxTasks, {0}, TRUE, FALSE, FALSE, "delete")
    \/ InitCommand(CmdMaxTasks, {0}, FALSE, FALSE, FALSE, "delete")

SpecDelete == InitDelete /\ [][NextDelete]_vars

\* C15: after deleteItems(ids) no surviving task has a predecessorId of the
\* deleted id set, and the surviving tasks whose predecessor was not deleted
\* keep their predecessorId
DeleteStripsPredecessors ==
    [][\A ids \in DeleteChoices :
          (/\ ids # <<>>
           /\ Deletes(ids)
           /\ handleDeleteTasks(ids) \/ App_handleDeleteTasks(ids))
          => \A i \in DOMAIN tasks' :
                tasks'[i].predecessorId =
                    IF TaskOf(tasks, tasks'[i].id).predecessorId \in Range(ids)
                    THEN Undefined
                    ELSE TaskOf(tasks, tasks'[i].id).predecessorId
      ]_vars

\* the ids of the group that are not deleted
Survivors(group, ids) == Range(group.taskIds) \ Range(ids)

\* the ids of b are in the order they have in a
SameRelativeOrder(a, b) ==
    \A i \in DOMAIN b, j \in DOMAIN b :
        i < j => IndexOf(a, b[i]) < IndexOf(a, b[j])

\* C16: after deleteItems(ids) no group lists a deleted id; every group left
\* with fewer than 2 members is removed and every surviving task that pointed
\* to it has its groupId cleared; the groups that still have 2 or more
\* members keep their remaining members in their original relative order
DeleteCleansGroups ==
    [][\A ids \in DeleteChoices :
          (/\ ids # <<>>
           /\ Deletes(ids)
           /\ handleDeleteTasks(ids) \/ App_handleDeleteTasks(ids))
          => /\ \A g \in DOMAIN taskGroups' :
                   Range(taskGroups'[g].taskIds) \cap Range(ids) = {}
             /\ \A g \in DOMAIN taskGroups :
                   IF Cardinality(Survivors(taskGroups[g], ids)) < 2
                   THEN /\ FindGroup(taskGroups', taskGroups[g].id) = 0
                        /\ \A i \in DOMAIN tasks' :
                              TaskOf(tasks, tasks'[i].id).groupId = taskGroups[g].id
                                  => tasks'[i].groupId = Undefined
                   ELSE /\ FindGroup(taskGroups', taskGroups[g].id) # 0
                        /\ LET kept == GroupOf(taskGroups', taskGroups[g].id).taskIds
                           IN /\ Range(kept) = Survivors(taskGroups[g], ids)
                              /\ Len(kept) = Cardinality(Range(kept))
                              /\ SameRelativeOrder(taskGroups[g].taskIds, kept)
                        /\ \A i \in DOMAIN tasks' :
                              TaskOf(tasks, tasks'[i].id).groupId = taskGroups[g].id
                                  => tasks'[i].groupId = taskGroups[g].id
             /\ Len(taskGroups') <= Len(taskGroups)
      ]_vars

\* a delete has written the project: task 2 is gone, the group that listed
\* tasks 3 and 1 in this order still lists them so, and task 4 points to no
\* group
DeleteCleansGroupsWitness ==
    /\ pc = "delete"
    /\ stamped
    /\ IdsOf(tasks) = {1, 3, 4}
    /\ Len(taskGroups) = 1
    /\ taskGroups[1].taskIds = <<3, 1>>
    /\ TaskOf(tasks, 4).groupId = Undefined

----------------------------------------------------------------------------
(* Commands that name a task the project does not hold, on a project that  *)
(* the command before has written                                          *)

NoOpDays == 0..NoOpMaxDay

\* the ids that name no task of the project
UnknownIds == CmdIds(NoOpMaxTasks) \ IdsOf(tasks)

MoveUnknown ==
    \E id \in UnknownIds, newStartDate \in NoOpDays :
        handleDragTask(id, newStartDate)

UngroupUnknown == \E id \in UnknownIds : handleUngroupTask(id)

\* the task before, the task to shift, or both are unknown
IntervalUnknown ==
    \E groupId \in 1..3, previousTaskId \in CmdIds(NoOpMaxTasks),
       taskToShiftId \in CmdIds(NoOpMaxTasks),
       newInterval \in (-NoOpMaxDay)..NoOpMaxDay :
        /\ previousTaskId \in UnknownIds \/ taskToShiftId \in UnknownIds
        /\ handleUpdateTaskInterval(groupId, previousTaskId, taskToShiftId,
                                    newInterval)

NextUnknown ==
    \/ MoveUnknown
    \/ UngroupUnknown
    \/ IntervalUnknown

SpecUnknown ==
    InitCommand(NoOpMaxTasks, NoOpDays, FALSE, FALSE, TRUE, "unknown")
        /\ [][NextUnknown]_vars

\* C17: moveItem, ungroupItem and setInterval called with a task id that is
\* not in the project's task collection leave the task collection and the
\* group collection exactly as they were
UnknownItemNoOp ==
    [][(MoveUnknown \/ UngroupUnknown \/ IntervalUnknown)
          => UNCHANGED <<tasks, taskGroups>>]_vars

\* a command naming an unknown task has returned early (the stamp of the
\* command before is gone) on a project that holds a group and a task of
\* two days
UnknownItemNoOpWitness ==
    /\ pc = "unknown"
    /\ ~stamped
    /\ taskGroups # <<>>
    /\ \E i \in DOMAIN tasks : tasks[i].start < tasks[i].end

----------------------------------------------------------------------------
(* Moves of a task to the day it starts on, on a project that the command  *)
(* before has written                                                      *)

NextSameDay ==
    \E id \in IdsOf(tasks) : handleDragTask(id, TaskOf(tasks, id).start)

SpecSameDay ==
    InitCommand(NoOpMaxTasks, NoOpDays, TRUE, FALSE, TRUE, "sameday")
        /\ [][NextSameDay]_vars

\* C18: moveItem(id, newStart) with newStart on the day the task starts on
\* changes no task, no group, no warning and writes no lastModified stamp,
\* for grouped and ungrouped tasks alike
ZeroDeltaMoveNoOp ==
    [][\A id \in IdsOf(tasks) :
          handleDragTask(id, TaskOf(tasks, id).start)
          => /\ UNCHANGED <<tasks, taskGroups, warnings>>
             /\ ~stamped']_vars

\* a move to the same day has returned early (the stamp of the command
\* before is gone) on a project with a grouped and an ungrouped task, a task
\* that spans the weekend day 0 and a warning on display
ZeroDeltaMoveNoOpWitness ==
    /\ pc = "sameday"
    /\ ~stamped
    /\ warnings # <<>>
    /\ \E i \in DOMAIN tasks : tasks[i].groupId # Undefined
    /\ \E i \in DOMAIN tasks :
          /\ tasks[i].groupId = Undefined
          /\ tasks[i].start = 0
          /\ tasks[i].end = 1

----------------------------------------------------------------------------
(* Ids of created tasks, lanes of reordered task arrays *)

\* C19: the id assigned to a task created after deleteItems(ids) differs
\* from the id of every task that existed in the project before, the deleted
\* tasks included
TaskIdsNeverReused ==
    \A ids \in DeleteChoices :
        NewTaskId(RemainingTasks(tasks, Range(ids))) \notin IdsOf(tasks)

\* the arrays that hold the same tasks in any order
Reorderings(ts) ==
    {[i \in DOMAIN ts |-> ts[f[i]]] :
        f \in {g \in [DOMAIN ts -> DOMAIN ts] : Range(g) = DOMAIN ts}}

\* the row of the task in a week layout
RowOf(layout, id) ==
    layout[CHOOSE i \in DOMAIN layout : layout[i].task = id].row

\* C20: for a fixed week window the row of each task depends only on the set
\* of tasks: every array that holds the same tasks in another order yields
\* the same row for every task
PackingOrderIndependent ==
    weekStart # NoWeek =>
        \A other \in Reorderings(tasks) :
            \A i \in DOMAIN taskLayoutRows :
                RowOf(PackWeek(other, weekStart)[1], taskLayoutRows[i].task)
                    = taskLayoutRows[i].row

----------------------------------------------------------------------------
(* The rows of a rendered week *)

\* the layout entries i and j cover a common day
SpansOverlap(i, j) ==
    SpanDays(taskLayoutRows[i]) \cap SpanDays(taskLayoutRows[j]) # {}

\* C21: the tasks are placed one by one in sorted order, each in the
\* lowest-numbered row in which no day of its clipped span is occupied by a
\* task placed before it; a new row is opened only when every existing row
\* conflicts
FirstFitLane ==
    weekStart # NoWeek =>
        /\ [i \in DOMAIN taskLayoutRows |-> taskLayoutRows[i].task]
              = TaskIdsOf(TasksInWeek(tasks, weekStart))
        /\ \A i \in DOMAIN taskLayoutRows :
              /\ \A r \in 0..(taskLayoutRows[i].row - 1) :
                    \E j \in 1..(i - 1) :
                        taskLayoutRows[j].row = r /\ SpansOverlap(i, j)
              /\ \A j \in 1..(i - 1) :
                    taskLayoutRows[j].row = taskLayoutRows[i].row
                        => ~SpansOverlap(i, j)

\* the week of day 0 rendered with A(Day0-Day4) in row 0, B(Day2-Day6) in
\* row 1 and a third task of the last day alone back in row 0
FirstFitLaneWitness ==
    /\ weekStart = 0
    /\ Len(taskLayoutRows) = 3
    /\ \E a \in DOMAIN taskLayoutRows, b \in DOMAIN taskLayoutRows :
          /\ taskLayoutRows[a] = [task |-> taskLayoutRows[a].task, row |-> 0,
                                  startDay |-> 0, span |-> 5]
          /\ taskLayoutRows[b] = [task |-> taskLayoutRows[b].task, row |-> 1,
                                  startDay |-> 2, span |-> 5]
    /\ taskLayoutRows[3].row = 0
    /\ taskLayoutRows[3].startDay = 6

----------------------------------------------------------------------------
(* The weeks rendered for tasks that reach across the week boundary *)

InitOrder ==
    /\ \E n \in 0..OrderMaxTasks :
          \E se \in [1..n -> Spans(0..OrderMaxDay)] : tasks = TaskList(n, se)
    /\ taskGroups = <<>>
    /\ currentProjectId = TheProject
    /\ Mounted
    /\ NoGesture
    /\ NoRender
    /\ pc = "order"

SpecOrder == InitOrder /\ [][NextPack]_vars

\* the calendar duration of the task of a layout entry
DurationOf(entry) ==
    TaskOf(tasks, entry.task).end - TaskOf(tasks, entry.task).start

\* C22: within a week the tasks are processed in ascending order of their
\* window-clipped start, and among tasks with the same clipped start the one
\* with the longer duration is processed first, also when the true start of
\* a task lies before the window start
PackingOrder ==
    weekStart # NoWeek =>
        \A i \in DOMAIN taskLayoutRows, j \in DOMAIN taskLayoutRows :
            i < j =>
                /\ taskLayoutRows[i].startDay <= taskLayoutRows[j].startDay
                /\ taskLayoutRows[i].startDay = taskLayoutRows[j].startDay
                      => DurationOf(taskLayoutRows[i])
                             >= DurationOf(taskLayoutRows[j])

----------------------------------------------------------------------------
(* One setInterval command, with any arguments, on a project not yet       *)
(* written                                                                 *)

IntervalGroupIds == 1..3
IntervalGaps == (-IntervalMaxGap)..IntervalMaxGap

NextInterval ==
    /\ ~stamped
    /\ \E groupId \in IntervalGroupIds,
          previousTaskId \in CmdIds(IntervalMaxTasks),
          taskToShiftId \in CmdIds(IntervalMaxTasks),
          newInterval \in IntervalGaps :
           handleUpdateTaskInterval(groupId, previousTaskId, taskToShiftId,
                                    newInterval)

SpecInterval ==
    InitCommand(IntervalMaxTasks, 0..IntervalMaxDay, FALSE, FALSE, FALSE, "interval")
        /\ [][NextInterval]_vars

\* the task exists and the group with this id lists it
IsMemberOf(groupId, id) ==
    /\ FindTask(tasks, id) # 0
    /\ FindGroup(taskGroups, groupId) # 0
    /\ Includes(GroupOf(taskGroups, groupId).taskIds, id)

\* C23: after setInterval(groupId, previousItemId, itemToShiftId, n) on two
\* existing members of the group of which previousItem starts strictly
\* before itemToShift, itemToShift.start equals previousItem.end + n, for any
\* n, and the dates of previousItem are unchanged
IntervalTargetStart ==
    [][\A groupId \in IntervalGroupIds, p \in IdsOf(tasks), t \in IdsOf(tasks),
          n \in IntervalGaps :
          (/\ IsMemberOf(groupId, p)
           /\ IsMemberOf(groupId, t)
           /\ TaskOf(tasks, p).start < TaskOf(tasks, t).start
           /\ handleUpdateTaskInterval(groupId, p, t, n))
          => /\ TaskOf(tasks', t).start = TaskOf(tasks, p).end + n
             /\ TaskOf(tasks', p) = TaskOf(tasks, p)
      ]_vars

\* setInterval has written the project with a negative interval: a one-day
\* member of a group now starts the day before another member of the group,
\* which spans days 0 to 1, ends
IntervalTargetStartWitness ==
    /\ pc = "interval"
    /\ stamped
    /\ \E g \in DOMAIN taskGroups, p \in DOMAIN tasks, t \in DOMAIN tasks :
          /\ Includes(taskGroups[g].taskIds, tasks[p].id)
          /\ Includes(taskGroups[g].taskIds, tasks[t].id)
          /\ tasks[p].start < tasks[p].end
          /\ tasks[t].start = tasks[p].end - 1
          /\ tasks[t].end = tasks[t].start
          /\ tasks[p].start = 0
          /\ tasks[p].end = 1

\* the members of the group that itemToShift carries along: itself and every
\* member that starts on or after the day it starts on
CascadeSet(groupId, t) ==
    {t} \cup {m \in IdsOf(tasks) :
                /\ IsMemberOf(groupId, m)
                /\ TaskOf(tasks, m).start >= TaskOf(tasks, t).start}

\* C24: when setInterval produces a nonzero delta, the tasks whose dates
\* change are exactly itemToShift and every other member of the group whose
\* start is on or after itemToShift's original start, members that start on
\* the same day included; each has start and end shifted by the delta and
\* every other task is unchanged
IntervalCascadeSet ==
    [][\A groupId \in IntervalGroupIds, p \in IdsOf(tasks), t \in IdsOf(tasks),
          n \in IntervalGaps :
          (/\ IsMemberOf(groupId, p)
           /\ IsMemberOf(groupId, t)
           /\ IntervalDelta(tasks, p, t, n) # 0
           /\ handleUpdateTaskInterval(groupId, p, t, n))
          => LET delta == IntervalDelta(tasks, p, t, n)
             IN tasks' = [i \in DOMAIN tasks |->
                   IF tasks[i].id \in CascadeSet(groupId, t)
                   THEN [tasks[i] EXCEPT !.start = @ + delta, !.end = @ + delta]
                   ELSE tasks[i]]
      ]_vars

----------------------------------------------------------------------------
(* Reorder alone: one call of handleReorderGroupTasks with any array of    *)
(* ids, an id possibly named twice                                         *)

ReorderMaxTasks == 3
ReorderMaxDay == 1
ReorderMaxIds == 3

\* the arrays the command may be handed
ReorderChoices ==
    UNION {ArraysOver(CmdIds(ReorderMaxTasks), n) : n \in 0..ReorderMaxIds}

NextReorder ==
    /\ ~stamped
    /\ \E groupId \in IntervalGroupIds, newOrderedTaskIds \in ReorderChoices :
          handleReorderGroupTasks(groupId, newOrderedTaskIds)

SpecReorder ==
    InitCommand(ReorderMaxTasks, 0..ReorderMaxDay, FALSE, FALSE, FALSE, "reorder")
        /\ [][NextReorder]_vars

\* no id stands twice in the array
NoRepeat(ids) == Cardinality(Range(ids)) = Len(ids)

\* what the handler makes of the tasks named by ids and of group groupId:
\* the first task as it was, every later one starting the day after the new
\* end of the one before it with its own duration, the other tasks as they
\* were, the group listing ids
Relinearized(groupId, ids) ==
    LET resolved == ResolveTasks(tasks, ids)
        newTasks == ReorderedTasks(tasks, ids)
        newGroups == ReorderedGroups(taskGroups, groupId, ids)
    IN /\ DOMAIN newTasks = DOMAIN tasks
       /\ TaskOf(newTasks, resolved[1].id) = resolved[1]
       /\ \A k \in 2..Len(resolved) :
             LET before == resolved[k]
                 now == TaskOf(newTasks, before.id)
                 prev == TaskOf(newTasks, resolved[k - 1].id)
             IN /\ now.start = prev.end + 1
                /\ now.end - now.start = before.end - before.start
                /\ now = [before EXCEPT !.start = now.start, !.end = now.end]
       /\ \A i \in DOMAIN tasks :
             tasks[i].id \notin Range(ids) => newTasks[i] = tasks[i]
       /\ \A g \in DOMAIN taskGroups :
             taskGroups[g].id = groupId => newGroups[g].taskIds = ids

----------------------------------------------------------------------------
(* Reorder with any array of distinct ids, a part of the group included,   *)
(* and move, on a project that earlier commands have left consistent       *)

SublistMaxTasks == 3
SublistMaxDay == 2

SublistDays == 0..SublistMaxDay

ReorderSublist ==
    \E groupId \in 1..2 :
        \E newOrderedTaskIds \in DistinctArrays(1..SublistMaxTasks, 2, SublistMaxTasks) :
            /\ handleReorderGroupTasks(groupId, newOrderedTaskIds)
            /\ DatesIn(tasks', SublistDays)

MoveMember ==
    \E id \in IdsOf(tasks), newStartDate \in SublistDays :
        /\ handleDragTask(id, newStartDate)
        /\ DatesIn(tasks', SublistDays)

NextSublist == ReorderSublist \/ MoveMember

SpecSublist ==
    InitCommand(SublistMaxTasks, {0}, FALSE, FALSE, FALSE, "sublist")
        /\ [][NextSublist]_vars

DatesOf(ts) == [i \in DOMAIN ts |-> <<ts[i].start, ts[i].end>>]

\* C27: setInterval(groupId, previousItemId, itemToShiftId, n) never changes
\* the dates of a task that is not a member of the group named by groupId,
\* and when itemToShiftId is an existing task that is not in the taskIds of
\* that group no task's dates change at all
IntervalConfinedToGroup ==
    [][\A groupId \in IntervalGroupIds, p \in CmdIds(IntervalMaxTasks),
          t \in CmdIds(IntervalMaxTasks), n \in IntervalGaps :
          handleUpdateTaskInterval(groupId, p, t, n)
          => /\ DOMAIN tasks' = DOMAIN tasks
             /\ \A i \in DOMAIN tasks :
                   ~IsMemberOf(groupId, tasks[i].id)
                       => DatesOf(tasks')[i] = DatesOf(tasks)[i]
             /\ (t \in IdsOf(tasks) /\ ~IsMemberOf(groupId, t))
                   => DatesOf(tasks') = DatesOf(tasks)
      ]_vars

\* C28: in every state reached by createGroup, ungroup, deleteItems,
\* deleteGroup, reorder, task import and project switch, every id in the
\* taskIds of every group is the id of a task of the project
GroupReferentialIntegrity ==
    \A g \in DOMAIN taskGroups :
        Range(taskGroups[g].taskIds) \subseteq IdsOf(tasks)

----------------------------------------------------------------------------
(* The calendar with up to four tasks on the days around a week boundary   *)

LaneMaxTasks == 4
LaneFirstDay == 6
LaneLastDay == 9

InitLanes ==
    /\ \E n \in 0..LaneMaxTasks :
          \E se \in [1..n -> Spans(LaneFirstDay..LaneLastDay)] :
              tasks = TaskList(n, se)
    /\ taskGroups = <<>>
    /\ currentProjectId = TheProject
    /\ Mounted
    /\ NoGesture
    /\ NoRender
    /\ pc = "lanes"

SpecLanes == InitLanes /\ [][NextPack]_vars

\* the number of tasks visible in the rendered week whose clipped span
\* covers day d of the week
DayLoad(d) ==
    Cardinality({i \in DOMAIN tasks :
        /\ tasks[i].start <= weekStart + 6
        /\ tasks[i].end >= weekStart
        /\ Max(tasks[i].start, weekStart) <= weekStart + d
        /\ weekStart + d <= Min(tasks[i].end, weekStart + 6)})

\* C29: for any week window and any tasks with start <= end, the number of
\* rows opened by the packing loop is the maximum, over the 7 days of the
\* week, of the number of visible tasks whose clipped span covers the day
\* (0 rows when no task overlaps the week)
LaneCountMinimal ==
    weekStart # NoWeek =>
        /\ \A d \in 0..6 : DayLoad(d) <= rowCount
        /\ \E d \in 0..6 : DayLoad(d) = rowCount

\* the week of day 7 rendered with four visible tasks in two rows, of which
\* one is clipped at the start of the week
LaneCountMinimalWitness ==
    /\ weekStart = 7
    /\ Len(taskLayoutRows) = 4
    /\ rowCount = 2
    /\ \E i \in DOMAIN tasks : tasks[i].start < 7 /\ tasks[i].end >= 7

\* C30: for every task with start <= end and every move, grouped or
\* ungrouped, the calendar-day length end - start of the task after the move
\* is at most its length before the move and is never negative
MoveNeverLengthens ==
    [][MoveTask =>
          /\ DOMAIN tasks' = DOMAIN tasks
          /\ \A i \in DOMAIN tasks :
                /\ tasks'[i].end - tasks'[i].start >= 0
                /\ tasks'[i].end - tasks'[i].start <= tasks[i].end - tasks[i].start
      ]_vars

\* after a move: a task alone that runs from a Monday to the Tuesday, and a
\* group of two that was moved with both of its tasks more than a day long
MoveNeverLengthensWitness ==
    /\ stamped
    /\ \/ /\ taskGroups = <<>>
          /\ \E i \in DOMAIN tasks :
                /\ tasks[i].end - tasks[i].start = 1
                /\ tasks[i].start > 0
       \/ /\ taskGroups # <<>>
          /\ \A i \in DOMAIN tasks : tasks[i].end - tasks[i].start >= 1

====
